---------------------------- MODULE Spec2Model ----------------------------
(***************************************************************************)
(* A model of housing-scout: the text-mode parser and fallback controller  *)
(* of src/scrapers/booli.rs, the markup-mode card extraction of            *)
(* src/scrapers/browser.rs and the persistence steps of src/main.rs.       *)
(*                                                                         *)
(* A Rust String is modelled as the sequence of its chars.  A char is a    *)
(* one-letter TLA+ string; the non-ASCII chars the program's patterns      *)
(* name are written by their entity names ("AUML" is U+00E4, "OUML" is     *)
(* U+00F6, "ARING" is U+00E5, "MIDDOT" is U+00B7, "SUP2" is U+00B2).       *)
(* Positions are byte offsets into the UTF-8 encoding, as in Rust: find,   *)
(* rfind and slicing count bytes, chars().nth() counts chars.              *)
(* f32 values are modelled in tenths (2.0 is 20, 35.5 is 355).             *)
(***************************************************************************)
EXTENDS Integers, Sequences, FiniteSets, TLC

(***************************************************************************)
(* Chars and their UTF-8 width                                             *)
(***************************************************************************)
Digits == {"0", "1", "2", "3", "4", "5", "6", "7", "8", "9"}

AsciiLetters ==
    {"a", "b", "c", "d", "e", "f", "g", "h", "i", "j", "k", "l", "m",
     "n", "o", "p", "q", "r", "s", "t", "u", "v", "w", "x", "y", "z",
     "A", "B", "C", "D", "E", "F", "G", "H", "I", "J", "K", "L", "M",
     "N", "O", "P", "Q", "R", "S", "T", "U", "V", "W", "X", "Y", "Z"}

\* the chars of the model that take two bytes in UTF-8
MultiByte == {"AUML", "OUML", "ARING", "MIDDOT", "SUP2"}

Width(c) == IF c \in MultiByte THEN 2 ELSE 1

\* char::is_numeric: Unicode categories Nd, Nl, No (SUP2 is No)
is_numeric(c) == c \in Digits \cup {"SUP2"}

\* char::is_alphanumeric: Alphabetic or numeric
is_alphanumeric(c) ==
    c \in AsciiLetters \cup {"AUML", "OUML", "ARING"} \/ is_numeric(c)

\* char::is_whitespace, for the chars of the model
is_whitespace(c) == c = " "

(***************************************************************************)
(* str primitives, in byte offsets                                         *)
(***************************************************************************)
None == -1

\* byte offset at which the k-th char (1-based) starts; k = Len(s)+1 is the
\* end: one byte a char, and one more for each two-byte char
ByteOffset(s, k) ==
    (k - 1) + Cardinality({j \in 1..(k - 1) : Width(s[j]) = 2})

\* str::len
ByteLen(s) == ByteOffset(s, Len(s) + 1)

\* the 1-based char index that starts at byte offset b (Len(s)+1 at the
\* end), 0 when b is no char boundary: it is at most b+1, and less by at
\* most the number of two-byte chars
CharAt(s, b) ==
    LET wide == Cardinality({j \in 1..Len(s) : Width(s[j]) = 2})
        at   == {k \in (b + 1 - wide)..(b + 1) :
                    k >= 1 /\ k <= Len(s) + 1 /\ ByteOffset(s, k) = b}
    IN  IF at = {} THEN 0 ELSE CHOOSE k \in at : TRUE

\* str::is_char_boundary
is_char_boundary(s, b) == CharAt(s, b) # 0

MatchesAt(s, pat, k) ==
    /\ k + Len(pat) - 1 <= Len(s)
    /\ \A j \in 1..Len(pat) : s[k + j - 1] = pat[j]

Matches(s, pat) == {k \in 1..(Len(s) + 1) : MatchesAt(s, pat, k)}

SetMin(S) == CHOOSE x \in S : \A y \in S : x <= y
SetMax(S) == CHOOSE x \in S : \A y \in S : x >= y

\* str::contains
contains(s, pat) == Matches(s, pat) # {}

\* str::find(&str): byte offset of the first match, or None
find(s, pat) ==
    LET at == Matches(s, pat)
    IN  IF at = {} THEN None ELSE ByteOffset(s, SetMin(at))

\* str::rfind(&str): byte offset of the last match, or None
rfind(s, pat) ==
    LET at == Matches(s, pat)
    IN  IF at = {} THEN None ELSE ByteOffset(s, SetMax(at))

\* &s[a..e]: panics unless a <= e <= len and both are char boundaries
SliceOk(s, a, e) ==
    /\ 0 <= a /\ a <= e /\ e <= ByteLen(s)
    /\ is_char_boundary(s, a) /\ is_char_boundary(s, e)

Slice(s, a, e) == SubSeq(s, CharAt(s, a), CharAt(s, e) - 1)

\* str::chars().nth(n): the n-th char (0-based), or None
chars_nth(s, n) == IF 0 <= n /\ n < Len(s) THEN s[n + 1] ELSE "NONE"

RECURSIVE TrimStart(_)
TrimStart(s) ==
    IF s # <<>> /\ is_whitespace(Head(s)) THEN TrimStart(Tail(s)) ELSE s

RECURSIVE TrimEnd(_)
TrimEnd(s) ==
    IF s # <<>> /\ is_whitespace(s[Len(s)])
    THEN TrimEnd(SubSeq(s, 1, Len(s) - 1)) ELSE s

\* str::trim
trim(s) == TrimEnd(TrimStart(s))

\* str::replace(from, to)
RECURSIVE replace(_, _, _)
replace(s, from, to) ==
    LET at == {k \in 1..Len(s) : MatchesAt(s, from, k)}
    IN  IF at = {} THEN s
        ELSE SubSeq(s, 1, SetMin(at) - 1) \o to
                 \o replace(SubSeq(s, SetMin(at) + Len(from), Len(s)), from, to)

\* chars().filter(keep).collect::<String>()
Filter(s, keep(_)) == SelectSeq(s, keep)

\* str::split(sep).last(), for a one-char separator: the text after the last
\* separator (the whole string when there is none; never None)
split_last(s, sep) ==
    LET at == {k \in 1..Len(s) : s[k] = sep}
    IN  IF at = {} THEN s ELSE SubSeq(s, SetMax(at) + 1, Len(s))

\* str::split(pat).next(): the text before the first match of pat
split_first(s, pat) ==
    LET at == Matches(s, pat)
    IN  IF at = {} THEN s ELSE SubSeq(s, 1, SetMin(at) - 1)

\* str::split(|c| is_sep(c)).collect::<Vec<_>>(), seps the separator chars
RECURSIVE split(_, _)
split(s, seps) ==
    LET at == {k \in 1..Len(s) : s[k] \in seps}
    IN  IF at = {} THEN <<s>>
        ELSE <<SubSeq(s, 1, SetMin(at) - 1)>>
                 \o split(SubSeq(s, SetMin(at) + 1, Len(s)), seps)

\* str::split_whitespace().last(): the last run of non-whitespace chars,
\* <<>> standing for None (a token is never empty)
split_whitespace_last(s) ==
    LET t  == TrimEnd(s)
        ws == {k \in 1..Len(t) : is_whitespace(t[k])}
    IN  IF ws = {} THEN t ELSE SubSeq(t, SetMax(ws) + 1, Len(t))

(***************************************************************************)
(* Number parsing and formatting                                           *)
(***************************************************************************)
DigitValue ==
    "0" :> 0 @@ "1" :> 1 @@ "2" :> 2 @@ "3" :> 3 @@ "4" :> 4 @@
    "5" :> 5 @@ "6" :> 6 @@ "7" :> 7 @@ "8" :> 8 @@ "9" :> 9

DigitChar == <<"0", "1", "2", "3", "4", "5", "6", "7", "8", "9">>

AllDigits(s) == \A k \in 1..Len(s) : s[k] \in Digits

RECURSIVE DigitsValue(_)
DigitsValue(s) ==
    IF s = <<>> THEN 0
    ELSE 10 * DigitsValue(SubSeq(s, 1, Len(s) - 1)) + DigitValue[s[Len(s)]]

RECURSIVE StripZeros(_)
StripZeros(s) ==
    IF Len(s) > 1 /\ Head(s) = "0" THEN StripZeros(Tail(s)) ELSE s

\* the most decimal digits a value the model can hold has; the values the
\* program's i64 and f32 hold on the pages of the model stay below it, and
\* an i32 of more digits is an overflow
MaxDigits == 9

\* str::parse::<i64>() and str::parse::<i32>(): an optional sign and at
\* least one ASCII digit; Err (ok = FALSE) otherwise and on overflow
ParseInt(s) ==
    LET signed == s # <<>> /\ Head(s) \in {"+", "-"}
        digits == IF signed THEN Tail(s) ELSE s
        fits   == Len(StripZeros(digits)) <= MaxDigits
    IN  IF digits = <<>> \/ ~AllDigits(digits) \/ ~fits
        THEN [ok |-> FALSE, v |-> 0]
        ELSE [ok |-> TRUE,
              v  |-> IF signed /\ Head(s) = "-"
                     THEN 0 - DigitsValue(digits) ELSE DigitsValue(digits)]

\* str::parse::<f32>() in tenths: an optional sign, digits with at most one
\* '.', at least one digit; digits after the first fractional one are dropped
ParseF32(s) ==
    LET signed == s # <<>> /\ Head(s) \in {"+", "-"}
        body   == IF signed THEN Tail(s) ELSE s
        dots   == {k \in 1..Len(body) : body[k] = "."}
        whole  == IF dots = {} THEN body ELSE SubSeq(body, 1, SetMin(dots) - 1)
        frac   == IF dots = {} THEN <<>>
                  ELSE SubSeq(body, SetMin(dots) + 1, Len(body))
        wellformed ==
            /\ Cardinality(dots) <= 1
            /\ AllDigits(whole) /\ AllDigits(frac)
            /\ Len(whole) + Len(frac) > 0
            /\ Len(StripZeros(whole)) < MaxDigits
        tenths == 10 * DigitsValue(whole)
                     + (IF frac = <<>> THEN 0 ELSE DigitValue[frac[1]])
    IN  IF ~wellformed THEN [ok |-> FALSE, v |-> 0]
        ELSE [ok |-> TRUE,
              v  |-> IF signed /\ Head(s) = "-" THEN 0 - tenths ELSE tenths]

\* f32 as i32: truncation toward zero
F32AsI32(t) == IF t >= 0 THEN t \div 10 ELSE 0 - ((0 - t) \div 10)

\* Display of an integer
RECURSIVE FormatNat(_)
FormatNat(n) ==
    IF n < 10 THEN <<DigitChar[n + 1]>>
    ELSE FormatNat(n \div 10) \o <<DigitChar[(n % 10) + 1]>>

FormatInt(n) == IF n < 0 THEN <<"-">> \o FormatNat(0 - n) ELSE FormatNat(n)

\* Display of an f32 held in tenths: 20 prints as 2, 15 as 1.5
FormatF32(t) ==
    LET a == IF t < 0 THEN 0 - t ELSE t
        w == FormatNat(a \div 10)
            \o (IF a % 10 = 0 THEN <<>> ELSE <<".", DigitChar[(a % 10) + 1]>>)
    IN  IF t < 0 THEN <<"-">> \o w ELSE w

(***************************************************************************)
(* The string constants of src/scrapers/booli.rs                           *)
(***************************************************************************)
DOMAIN_MARK ==
    <<"w", "w", "w", ".", "b", "o", "o", "l", "i", ".", "s", "e">>
LAGENHET == <<"L", "AUML", "g", "e", "n", "h", "e", "t">>
URL_MARK ==
    <<"]", "(", "h", "t", "t", "p", "s", ":", "/", "/", "w", "w", "w",
      ".", "b", "o", "o", "l", "i", ".", "s", "e", "/">>
SPARA == <<"S", "p", "a", "r", "a", " ">>
AREA_SEP == <<" ", "MIDDOT", " ">>
KR == <<" ", "k", "r">>
M2 == <<"m", "SUP2">>
RUM == <<"r", "u", "m">>
HISS == <<"H", "i", "s", "s">>
BALKONG == <<"B", "a", "l", "k", "o", "n", "g">>
ELDSTAD == <<"E", "l", "d", "s", "t", "a", "d">>
SODERMALM == <<"S", "OUML", "d", "e", "r", "m", "a", "l", "m">>
STOCKHOLM == <<"S", "t", "o", "c", "k", "h", "o", "l", "m">>
BOOLI_ == <<"b", "o", "o", "l", "i", "_">>
LAGENHET_I == <<"L", "AUML", "g", "e", "n", "h", "e", "t", " ", "i", " ">>
RUM_COMMA == <<" ", "r", "u", "m", ",", " ">>
KVM == <<" ", "k", "v", "m", ".">>

(***************************************************************************)
(* BooliScraper::parse_properties_from_html: the extraction of one line    *)
(***************************************************************************)
\* a step's outcome: the value it leaves in its local, or a panic
Val(v) == [panic |-> FALSE, v |-> v]
Panicked(v) == [panic |-> TRUE, v |-> v]

\* str::rfind(|c| c.is_numeric() || extra.contains(c)): the byte offset of
\* the last such char, or None
rfind_numeric(s, extra) ==
    LET at == {k \in 1..Len(s) : is_numeric(s[k]) \/ s[k] \in extra}
    IN  IF at = {} THEN None ELSE ByteOffset(s, SetMax(at))

\* the loops "while start > 0 && (before.chars().nth(start-1).unwrap() ...)"
\* of the price and sqm rules: start is a byte offset, nth takes a char
\* index; unwrap panics on None (the result None)
RECURSIVE ScanBackUnwrap(_, _, _)
ScanBackUnwrap(before, start, extra) ==
    IF start = 0 THEN 0
    ELSE LET c == chars_nth(before, start - 1)
         IN  IF c = "NONE" THEN None
             ELSE IF is_numeric(c) \/ c \in extra
                  THEN ScanBackUnwrap(before, start - 1, extra)
                  ELSE start

\* the loop of the rooms rule: "...nth(start-1).map(...).unwrap_or(false)"
RECURSIVE ScanBackOrFalse(_, _, _)
ScanBackOrFalse(before, start, extra) ==
    IF start = 0 THEN 0
    ELSE LET c == chars_nth(before, start - 1)
         IN  IF c # "NONE" /\ (is_numeric(c) \/ c \in extra)
             THEN ScanBackOrFalse(before, start - 1, extra)
             ELSE start

\* the locals of one iteration as declared at its top
InitialLocals ==
    [address |-> <<>>, price |-> 0, sqm |-> 0, rooms |-> 0, url |-> <<>>,
     area |-> SODERMALM, features |-> <<>>]

\* the gate of the iteration
IsListingLine(line) == contains(line, DOMAIN_MARK) /\ contains(line, LAGENHET)

ExtractUrl(line, url) ==
    LET url_start == rfind(line, URL_MARK)
    IN  IF url_start = None THEN url
        ELSE LET url_part == Slice(line, url_start + 2, ByteLen(line))
                 url_end  == find(url_part, <<")">>)
             IN  IF url_end = None THEN url ELSE Slice(url_part, 0, url_end)

\* the closure the address section is split on
IsAddressSeparator(c) ==
    /\ ~is_alphanumeric(c) /\ c # " "
    /\ c \notin {"ARING", "AUML", "OUML"}

ExtractAddress(line, address) ==
    LET spara_pos    == find(line, SPARA)
        lagenhet_pos == find(line, LAGENHET)
    IN  IF spara_pos = None \/ lagenhet_pos = None THEN Val(address)
        ELSE IF ~SliceOk(line, spara_pos + 6, lagenhet_pos)
        THEN Panicked(address)
        ELSE LET addr_section == Slice(line, spara_pos + 6, lagenhet_pos)
                 seps  == {addr_section[k] : k \in 1..Len(addr_section)}
                 parts == split(addr_section,
                                {c \in seps : IsAddressSeparator(c)})
                 long  == {k \in 1..Len(parts) : ByteLen(parts[k]) > 3}
             IN  IF long = {} THEN Val(address)
                 ELSE Val(trim(parts[SetMin(long)]))

ExtractArea(line, area) ==
    LET first == find(line, AREA_SEP)
    IN  IF first = None THEN area
        ELSE LET rest     == Slice(line, first + 3, ByteLen(line))
                 area_end == find(rest, AREA_SEP)
             IN  IF area_end = None THEN area
                 ELSE trim(Slice(line, first + 3, first + 3 + area_end))

ExtractPrice(line, price) ==
    LET kr_pos == find(line, KR)
    IN  IF kr_pos = None THEN Val(price)
        ELSE LET before_kr      == Slice(line, 0, kr_pos)
                 last_digit_pos == rfind_numeric(before_kr, {})
                 start == ScanBackUnwrap(before_kr, last_digit_pos, {" "})
             IN  IF last_digit_pos = None THEN Val(price)
                 ELSE IF start = None THEN Panicked(price)
                 ELSE IF ~SliceOk(before_kr, start, last_digit_pos + 1)
                 THEN Panicked(price)
                 ELSE LET price_str ==
                              replace(Slice(before_kr, start,
                                            last_digit_pos + 1), <<" ">>, <<>>)
                          p == ParseInt(price_str)
                      IN  Val(IF p.ok THEN p.v ELSE price)

ExtractSqm(line, sqm) ==
    LET m2_pos == find(line, M2)
    IN  IF m2_pos = None THEN Val(sqm)
        ELSE LET before_m2      == Slice(line, 0, m2_pos)
                 last_digit_pos == rfind_numeric(before_m2, {})
                 start == ScanBackUnwrap(before_m2, last_digit_pos, {" ", "+"})
             IN  IF last_digit_pos = None THEN Val(sqm)
                 ELSE IF start = None THEN Panicked(sqm)
                 ELSE IF ~SliceOk(before_m2, start, last_digit_pos + 1)
                 THEN Panicked(sqm)
                 ELSE LET sqm_str ==
                              replace(replace(Slice(before_m2, start,
                                                    last_digit_pos + 1),
                                              <<" ">>, <<>>), <<"+">>, <<>>)
                          s == ParseInt(sqm_str)
                      IN  Val(IF s.ok THEN s.v ELSE sqm)

ExtractRooms(line, rooms) ==
    LET rum_pos == find(line, RUM)
    IN  IF rum_pos = None THEN Val(rooms)
        ELSE LET before_rum     == Slice(line, 0, rum_pos)
                 last_digit_pos == rfind_numeric(before_rum, {",", "."})
                 start == ScanBackOrFalse(before_rum, last_digit_pos,
                                          {",", "."})
             IN  IF last_digit_pos = None THEN Val(rooms)
                 ELSE IF ~SliceOk(before_rum, start, last_digit_pos + 1)
                 THEN Panicked(rooms)
                 ELSE LET rooms_str ==
                              replace(Slice(before_rum, start,
                                            last_digit_pos + 1), <<",">>, <<".">>)
                          r == ParseF32(rooms_str)
                      IN  Val(IF r.ok THEN r.v ELSE rooms)

\* the vocabulary words of a line in the order of their first occurrences
VOCABULARY == <<HISS, BALKONG, ELDSTAD>>

FirstSeen(line) ==
    LET found == {w \in 1..Len(VOCABULARY) : contains(line, VOCABULARY[w])}
        at(w) == SetMin(Matches(line, VOCABULARY[w]))
        order == CHOOSE f \in [1..Cardinality(found) -> found] :
                     \A j, k \in 1..Cardinality(found) :
                         j < k => at(f[j]) < at(f[k])
    IN  [k \in 1..Cardinality(found) |-> VOCABULARY[order[k]]]

\* the features pushed in the order of their first occurrences in the line
ExtractFeaturesFirstSeen(line, features) == features \o FirstSeen(line)

ExtractFeatures(line, features) ==
    LET f1 == IF contains(line, HISS) THEN Append(features, HISS) ELSE features
        f2 == IF contains(line, BALKONG) THEN Append(f1, BALKONG) ELSE f1
    IN  IF contains(line, ELDSTAD) THEN Append(f2, ELDSTAD) ELSE f2

property_id(url, i) ==
    IF url # <<>> THEN split_last(url, "/") ELSE BOOLI_ \o FormatInt(i)

\* the guard with the address test made optional
HasMinimumDataOrAddress(address, price, sqm) ==
    address # <<>> \/ (price > 0 \/ sqm > 0)

\* the guard "Only add if we have minimum data"
HasMinimumData(address, price, sqm) ==
    address # <<>> /\ (price > 0 \/ sqm > 0)

\* the Property pushed for a line (scraped_at is Utc::now())
TextProperty(l, i, now) ==
    [id          |-> property_id(l.url, i),
     source      |-> "Booli",
     location    |-> [city |-> STOCKHOLM, area |-> l.area,
                      latitude |-> "59.3145", longitude |-> "18.0736"],
     address     |-> l.address,
     price       |-> l.price,
     rooms       |-> l.rooms,
     sqm         |-> l.sqm,
     description |-> LAGENHET_I \o l.area \o <<".", " ">> \o FormatF32(l.rooms)
                         \o RUM_COMMA \o FormatInt(l.sqm) \o KVM,
     features    |-> l.features,
     images      |-> <<>>,
     url         |-> l.url,
     scraped_at  |-> now,
     raw_data    |-> [area |-> l.area, scraped_from |-> "booli_real_data"]]

\* what the steps of one iteration leave together
EndOfIteration(address, price, sqm, rooms, url, area, features) ==
    [panic  |-> address.panic \/ price.panic \/ sqm.panic \/ rooms.panic,
     locals |-> [address  |-> address.v,
                 price    |-> price.v,
                 sqm      |-> sqm.v,
                 rooms    |-> rooms.v,
                 url      |-> url,
                 area     |-> area,
                 features |-> features]]

\* the locals at the end of one iteration that starts from the locals l0,
\* and whether a step panicked on the way (the steps run in source order, a
\* panic ends the run)
ExtractLine(line, l0) ==
    EndOfIteration(ExtractAddress(line, l0.address),
                   ExtractPrice(line, l0.price),
                   ExtractSqm(line, l0.sqm),
                   ExtractRooms(line, l0.rooms),
                   ExtractUrl(line, l0.url),
                   ExtractArea(line, l0.area),
                   ExtractFeatures(line, l0.features))

MockProperty1(now) ==
    [id          |-> <<"b", "o", "o", "l", "i", "_", "s", "o", "d",
                           "e", "r", "m", "a", "l", "m", "_", "1">>,
     source      |-> "Booli",
     location    |-> [city |-> <<"S", "t", "o", "c", "k", "h", "o", "l", "m">>,
                      area |-> <<"S", "OUML", "d", "e", "r", "m", "a", "l", "m">>,
                      latitude |-> "59.3145", longitude |-> "18.0736"],
     address     |-> <<"G", "OUML", "t", "g", "a", "t", "a", "n", " ",
                           "1", "2", "0">>,
     price       |-> 5195000,
     rooms       |-> 20,
     sqm         |-> 70,
     description |-> <<"L", "AUML", "g", "e", "n", "h", "e", "t", " ",
                           "p", "ARING", " ", "S", "OUML", "d", "e", "r",
                           "m", "a", "l", "m", ".", " ", "H", "i", "s",
                           "s", " ", "o", "c", "h", " ", "b", "a", "l",
                           "k", "o", "n", "g", ".", " ", "A", "v", "g",
                           "i", "f", "t", ":", " ", "3", " ", "4", "4",
                           "9", " ", "k", "r", "/", "m", "ARING", "n", ".">>,
     features    |-> <<HISS, BALKONG>>,
     images      |-> <<>>,
     url         |-> <<"h", "t", "t", "p", "s", ":", "/", "/", "w",
                           "w", "w", ".", "b", "o", "o", "l", "i", ".",
                           "s", "e", "/", "a", "n", "n", "o", "n", "s",
                           "/", "s", "o", "d", "e", "r", "m", "a", "l",
                           "m", "1">>,
     scraped_at  |-> now,
     raw_data    |-> [mock |-> TRUE,
                      monthly_fee |-> <<"3", " ", "4", "4", "9", " ", "k", "r", "/",
                           "m", "ARING", "n">>,
                      area |-> <<"S", "OUML", "d", "e", "r", "m", "a", "l", "m">>]]

MockProperty2(now) ==
    [id          |-> <<"b", "o", "o", "l", "i", "_", "s", "o", "d",
                           "e", "r", "m", "a", "l", "m", "_", "2">>,
     source      |-> "Booli",
     location    |-> [city |-> <<"S", "t", "o", "c", "k", "h", "o", "l", "m">>,
                      area |-> <<"S", "OUML", "d", "e", "r", "m", "a", "l", "m">>,
                      latitude |-> "59.3145", longitude |-> "18.0736"],
     address     |-> <<"R", "i", "n", "g", "v", "AUML", "g", "e", "n",
                           " ", "1", "1", "A">>,
     price       |-> 7900000,
     rooms       |-> 40,
     sqm         |-> 84,
     description |-> <<"L", "AUML", "g", "e", "n", "h", "e", "t", " ",
                           "p", "ARING", " ", "S", "OUML", "d", "e", "r",
                           "m", "a", "l", "m", ".", " ", "H", "i", "s",
                           "s", " ", "o", "c", "h", " ", "b", "a", "l",
                           "k", "o", "n", "g", ".", " ", "A", "v", "g",
                           "i", "f", "t", ":", " ", "3", " ", "3", "9",
                           "0", " ", "k", "r", "/", "m", "ARING", "n", ".">>,
     features    |-> <<HISS, BALKONG>>,
     images      |-> <<>>,
     url         |-> <<"h", "t", "t", "p", "s", ":", "/", "/", "w",
                           "w", "w", ".", "b", "o", "o", "l", "i", ".",
                           "s", "e", "/", "a", "n", "n", "o", "n", "s",
                           "/", "s", "o", "d", "e", "r", "m", "a", "l",
                           "m", "2">>,
     scraped_at  |-> now,
     raw_data    |-> [mock |-> TRUE,
                      monthly_fee |-> <<"3", " ", "3", "9", "0", " ", "k", "r", "/",
                           "m", "ARING", "n">>,
                      area |-> <<"S", "OUML", "d", "e", "r", "m", "a", "l", "m">>]]

MockProperty3(now) ==
    [id          |-> <<"b", "o", "o", "l", "i", "_", "s", "o", "d",
                           "e", "r", "m", "a", "l", "m", "_", "3">>,
     source      |-> "Booli",
     location    |-> [city |-> <<"S", "t", "o", "c", "k", "h", "o", "l", "m">>,
                      area |-> <<"K", "a", "t", "a", "r", "i", "n", "a">>,
                      latitude |-> "59.3145", longitude |-> "18.0736"],
     address     |-> <<"T", "j", "u", "s", "t", "g", "a", "t", "a",
                           "n", " ", "4">>,
     price       |-> 2395000,
     rooms       |-> 10,
     sqm         |-> 24,
     description |-> <<"L", "i", "t", "e", "n", " ", "l", "AUML", "g",
                           "e", "n", "h", "e", "t", " ", "p", "ARING", " ",
                           "K", "a", "t", "a", "r", "i", "n", "a", ".",
                           " ", "H", "i", "s", "s", " ", "o", "c", "h",
                           " ", "b", "a", "l", "k", "o", "n", "g", ".",
                           " ", "A", "v", "g", "i", "f", "t", ":", " ",
                           "2", " ", "4", "0", "5", " ", "k", "r", "/",
                           "m", "ARING", "n", ".">>,
     features    |-> <<HISS, BALKONG>>,
     images      |-> <<>>,
     url         |-> <<"h", "t", "t", "p", "s", ":", "/", "/", "w",
                           "w", "w", ".", "b", "o", "o", "l", "i", ".",
                           "s", "e", "/", "a", "n", "n", "o", "n", "s",
                           "/", "s", "o", "d", "e", "r", "m", "a", "l",
                           "m", "3">>,
     scraped_at  |-> now,
     raw_data    |-> [mock |-> TRUE,
                      monthly_fee |-> <<"2", " ", "4", "0", "5", " ", "k", "r", "/",
                           "m", "ARING", "n">>,
                      area |-> <<"K", "a", "t", "a", "r", "i", "n", "a">>]]

MockProperty4(now) ==
    [id          |-> <<"b", "o", "o", "l", "i", "_", "s", "o", "d",
                           "e", "r", "m", "a", "l", "m", "_", "4">>,
     source      |-> "Booli",
     location    |-> [city |-> <<"S", "t", "o", "c", "k", "h", "o", "l", "m">>,
                      area |-> <<"S", "OUML", "d", "e", "r", "m", "a", "l", "m",
                           " ", "M", "a", "r", "i", "a">>,
                      latitude |-> "59.3145", longitude |-> "18.0736"],
     address     |-> <<"T", "o", "r", "k", "e", "l", " ", "K", "n",
                           "u", "t", "s", "s", "o", "n", "s", "g", "a",
                           "t", "a", "n", " ", "3", "1">>,
     price       |-> 12950000,
     rooms       |-> 40,
     sqm         |-> 114,
     description |-> <<"L", "AUML", "g", "e", "n", "h", "e", "t", " ",
                           "p", "ARING", " ", "S", "OUML", "d", "e", "r",
                           "m", "a", "l", "m", ".", " ", "H", "i", "s",
                           "s", ",", " ", "b", "a", "l", "k", "o", "n",
                           "g", " ", "o", "c", "h", " ", "e", "l", "d",
                           "s", "t", "a", "d", ".", " ", "A", "v", "g",
                           "i", "f", "t", ":", " ", "4", " ", "4", "5",
                           "7", " ", "k", "r", "/", "m", "ARING", "n", ".">>,
     features    |-> <<HISS, BALKONG, ELDSTAD>>,
     images      |-> <<>>,
     url         |-> <<"h", "t", "t", "p", "s", ":", "/", "/", "w",
                           "w", "w", ".", "b", "o", "o", "l", "i", ".",
                           "s", "e", "/", "a", "n", "n", "o", "n", "s",
                           "/", "s", "o", "d", "e", "r", "m", "a", "l",
                           "m", "4">>,
     scraped_at  |-> now,
     raw_data    |-> [mock |-> TRUE,
                      monthly_fee |-> <<"4", " ", "4", "5", "7", " ", "k", "r", "/",
                           "m", "ARING", "n">>,
                      area |-> <<"S", "OUML", "d", "e", "r", "m", "a", "l", "m",
                           " ", "M", "a", "r", "i", "a">>]]

MockProperty5(now) ==
    [id          |-> <<"b", "o", "o", "l", "i", "_", "s", "o", "d",
                           "e", "r", "m", "a", "l", "m", "_", "5">>,
     source      |-> "Booli",
     location    |-> [city |-> <<"S", "t", "o", "c", "k", "h", "o", "l", "m">>,
                      area |-> <<"S", "OUML", "d", "e", "r", "m", "a", "l", "m">>,
                      latitude |-> "59.3145", longitude |-> "18.0736"],
     address     |-> <<"F", "o", "l", "k", "u", "n", "g", "a", "g",
                           "a", "t", "a", "n", " ", "1", "0", "1">>,
     price       |-> 3495000,
     rooms       |-> 20,
     sqm         |-> 39,
     description |-> <<"L", "AUML", "g", "e", "n", "h", "e", "t", " ",
                           "p", "ARING", " ", "S", "OUML", "d", "e", "r",
                           "m", "a", "l", "m", ".", " ", "H", "i", "s",
                           "s", ".", " ", "A", "v", "g", "i", "f", "t",
                           ":", " ", "2", " ", "4", "1", "6", " ", "k",
                           "r", "/", "m", "ARING", "n", ".">>,
     features    |-> <<HISS>>,
     images      |-> <<>>,
     url         |-> <<"h", "t", "t", "p", "s", ":", "/", "/", "w",
                           "w", "w", ".", "b", "o", "o", "l", "i", ".",
                           "s", "e", "/", "a", "n", "n", "o", "n", "s",
                           "/", "s", "o", "d", "e", "r", "m", "a", "l",
                           "m", "5">>,
     scraped_at  |-> now,
     raw_data    |-> [mock |-> TRUE,
                      monthly_fee |-> <<"2", " ", "4", "1", "6", " ", "k", "r", "/",
                           "m", "ARING", "n">>,
                      area |-> <<"S", "OUML", "d", "e", "r", "m", "a", "l", "m">>]]

\* BooliScraper::get_mock_sodermalm_properties
get_mock_sodermalm_properties(now) ==
    <<MockProperty1(now), MockProperty2(now), MockProperty3(now),
      MockProperty4(now), MockProperty5(now)>>

(***************************************************************************)
(* BooliBrowserScraper::scrape_sodermalm: the extraction of one card       *)
(*                                                                         *)
(* A card is what the selectors of the source read of one                  *)
(* a.object-card-link element: its href and aria-label attributes, the     *)
(* aria-label of each li below it, the text of its first                   *)
(* span.object-card__price--logo and the text of each div.tag.  An         *)
(* Option<&str> is a sequence of no or one string.                         *)
(***************************************************************************)
PA == <<"p", "ARING", " ">>
KVADRATMETER ==
    <<"k", "v", "a", "d", "r", "a", "t", "m", "e", "t", "e", "r">>
KR_MAN == <<"k", "r", "/", "m", "ARING", "n">>
NBSP == <<"&", "n", "b", "s", "p", ";">>
SNART_TILL_SALU ==
    <<"S", "n", "a", "r", "t", " ", "t", "i", "l", "l", " ", "s", "a",
      "l", "u">>
BASE_URL ==
    <<"h", "t", "t", "p", "s", ":", "/", "/", "w", "w", "w", ".", "b",
      "o", "o", "l", "i", ".", "s", "e">>
RUM_LAGENHET_I ==
    <<" ", "r", "u", "m", " ", "l", "AUML", "g", "e", "n", "h", "e", "t",
      " ", "i", " ">>


Some(s) == <<s>>
Absent == <<>>
unwrap_or(opt, default) == IF opt = <<>> THEN default ELSE opt[1]

\* the rooms rule: the last word before the first "rum" of the label
CardRooms(aria_label, rooms) ==
    LET rum_match == split_first(aria_label, RUM)
        last_word == split_whitespace_last(trim(rum_match))
        r         == ParseF32(replace(last_word, <<",">>, <<".">>))
    IN  IF last_word = <<>> THEN rooms
        ELSE IF r.ok THEN r.v ELSE 0

\* the address and area rule; the pair it leaves in (address, area)
CardAddressArea(aria_label, address, area) ==
    LET pa_pos == find(aria_label, PA)
    IN  IF pa_pos = None THEN [address |-> address, area |-> area]
        ELSE LET after_pa  == Slice(aria_label, pa_pos + 3,
                                    ByteLen(aria_label))
                 comma_pos == find(after_pa, <<",">>)
             IN  IF comma_pos = None
                 THEN [address |-> trim(after_pa), area |-> area]
                 ELSE LET area_part  == Slice(after_pa, 0, comma_pos)
                          last_space == rfind(area_part, <<" ">>)
                          potential_area ==
                              Slice(area_part, last_space + 1,
                                    ByteLen(area_part))
                          first == IF potential_area = <<>> THEN "a"
                                   ELSE potential_area[1]
                      IN  [address |-> trim(area_part),
                           area    |-> IF last_space # None
                                          /\ ~is_numeric(first)
                                       THEN potential_area ELSE area]

IsSqmChar(c) == is_numeric(c) \/ c = "," \/ c = "."

\* the loop over the li elements: the sqm and monthly_fee it leaves
RECURSIVE CardListItems(_, _, _)
CardListItems(lis, sqm, monthly_fee) ==
    IF lis = <<>> THEN [sqm |-> sqm, monthly_fee |-> monthly_fee]
    ELSE IF Head(lis) = Absent
    THEN CardListItems(Tail(lis), sqm, monthly_fee)
    ELSE LET aria_decoded == replace(Head(lis)[1], NBSP, <<" ">>)
             sqm_str == Filter(aria_decoded, IsSqmChar)
             parsed  == ParseF32(replace(sqm_str, <<",">>, <<".">>))
             sqm1 == IF contains(aria_decoded, KVADRATMETER)
                     THEN F32AsI32(IF parsed.ok THEN parsed.v ELSE 0)
                     ELSE sqm
             fee1 == IF contains(aria_decoded, KR_MAN)
                     THEN aria_decoded ELSE monthly_fee
         IN  CardListItems(Tail(lis), sqm1, fee1)

\* the price rule: the numeric chars of the price element's text
CardPrice(price_el, price) ==
    IF price_el = Absent THEN price
    ELSE LET price_clean == Filter(price_el[1], is_numeric)
             p == ParseInt(price_clean)
         IN  IF price_clean = <<>> THEN price
             ELSE IF p.ok THEN p.v ELSE 0

\* the loop over the div.tag elements
RECURSIVE CardFeatures(_, _)
CardFeatures(tags, features) ==
    IF tags = <<>> THEN features
    ELSE LET feature == trim(Head(tags))
         IN  CardFeatures(Tail(tags),
                          IF feature # <<>> /\ feature # SNART_TILL_SALU
                          THEN Append(features, feature) ELSE features)

\* what the steps of one iteration of the card loop leave together
EndOfCardSteps(href, aria_label, rooms, aa, li, price, features) ==
    [href        |-> href,
     aria_label  |-> aria_label,
     booli_id    |-> split_last(href, "/"),
     rooms       |-> rooms,
     address     |-> aa.address,
     area        |-> aa.area,
     price       |-> price,
     sqm         |-> li.sqm,
     monthly_fee |-> li.monthly_fee,
     features    |-> features]

\* the steps on the aria-label of the card, decoded
CardSteps(card, aria_label) ==
    EndOfCardSteps(unwrap_or(card.href, <<>>),
                   aria_label,
                   CardRooms(aria_label, 0),
                   CardAddressArea(aria_label, <<>>, SODERMALM),
                   CardListItems(card.lis, 0, <<>>),
                   CardPrice(card.price, 0),
                   CardFeatures(card.tags, <<>>))

\* the locals of one iteration of the card loop at its end
ExtractCard(card) ==
    CardSteps(card, replace(unwrap_or(card.aria_label, <<>>), NBSP, <<" ">>))

\* the Property pushed for a card
CardProperty(c, now) ==
    [id          |-> c.booli_id,
     source      |-> "Booli",
     location    |-> [city |-> STOCKHOLM, area |-> c.area,
                      latitude |-> "59.3145", longitude |-> "18.0736"],
     address     |-> c.address,
     price       |-> c.price,
     rooms       |-> c.rooms,
     sqm         |-> c.sqm,
     description |-> FormatF32(c.rooms) \o RUM_LAGENHET_I \o c.area
                         \o <<".", " ">> \o FormatInt(c.sqm) \o KVM,
     features    |-> c.features,
     images      |-> <<>>,
     url         |-> BASE_URL \o c.href,
     scraped_at  |-> now,
     raw_data    |-> [area |-> c.area, scraped_from |-> "listing_page",
                      booli_id |-> c.booli_id, aria_label |-> c.aria_label,
                      monthly_fee |-> c.monthly_fee]]

(***************************************************************************)
(* The pages of the model                                                  *)
(*                                                                         *)
(* The lines a response body is made of, and the cards a listing page is   *)
(* made of.  Each is one case of the extraction rules.                     *)
(***************************************************************************)
\* the example line of the specification
LineSpecExample ==
    <<"S", "p", "a", "r", "a", " ", "F", "o", "l", "k", "u", "n", "g",
      "a", "g", "a", "t", "a", "n", " ", "1", "0", "1", "F", "o", "l",
      "k", "u", "n", "g", "a", "g", "a", "t", "a", "n", " ", "1", "0",
      "1", "L", "AUML", "g", "e", "n", "h", "e", "t", " ", "MIDDOT", " ",
      "S", "OUML", "d", "e", "r", "m", "a", "l", "m", " ", "MIDDOT", " ",
      "S", "t", "o", "c", "k", "h", "o", "l", "m", "3", " ", "4", "9",
      "5", " ", "0", "0", "0", " ", "k", "r", "3", "9", " ", "m", "SUP2",
      "2", " ", "r", "u", "m", "v", "ARING", "n", "3", "H", "i", "s",
      "s", "]", "(", "h", "t", "t", "p", "s", ":", "/", "/", "w", "w",
      "w", ".", "b", "o", "o", "l", "i", ".", "s", "e", "/", "a", "n",
      "n", "o", "n", "s", "/", "s", "o", "d", "e", "r", "m", "a", "l",
      "m", "5", ")">>

\* the address twice, back to back, before a separator
LineDoubled ==
    <<"S", "p", "a", "r", "a", " ", "G", "a", "t", "a", "n", " ", "1",
      "G", "a", "t", "a", "n", " ", "1", " ", "-", " ", "9", " ", "k",
      "r", " ", "L", "AUML", "g", "e", "n", "h", "e", "t", "]", "(", "h",
      "t", "t", "p", "s", ":", "/", "/", "w", "w", "w", ".", "b", "o",
      "o", "l", "i", ".", "s", "e", "/", "a", "n", "n", "o", "n", "s",
      "/", "4", ")">>

\* no digit before " kr", digits in the address
LineAddressDigits ==
    <<"S", "p", "a", "r", "a", " ", "G", "a", "t", "a", "n", " ", "1",
      "2", " ", "-", " ", "k", "r", " ", "3", "9", " ", "m", "SUP2", " ",
      "L", "AUML", "g", "e", "n", "h", "e", "t", "]", "(", "h", "t", "t",
      "p", "s", ":", "/", "/", "w", "w", "w", ".", "b", "o", "o", "l",
      "i", ".", "s", "e", "/", "a", "n", "n", "o", "n", "s", "/", "1",
      ")">>

\* "Lagenhet" before "Spara "
LineLagenhetFirst ==
    <<"w", "w", "w", ".", "b", "o", "o", "l", "i", ".", "s", "e", " ",
      "L", "AUML", "g", "e", "n", "h", "e", "t", " ", "S", "p", "a", "r",
      "a", " ", "G", "a", "t", "a", "n", " ", "1">>

\* every field present, ASCII only before the numbers
LineClean ==
    <<"S", "p", "a", "r", "a", " ", "H", "o", "r", "n", "s", "g", "a",
      "t", "a", "n", " ", "5", " ", "-", " ", "3", " ", "4", "9", "5",
      " ", "0", "0", "0", " ", "k", "r", " ", "2", " ", "r", "u", "m",
      " ", "3", "9", " ", "m", "SUP2", " ", "B", "a", "l", "k", "o", "n",
      "g", " ", "H", "i", "s", "s", " ", "L", "AUML", "g", "e", "n", "h",
      "e", "t", "]", "(", "h", "t", "t", "p", "s", ":", "/", "/", "w",
      "w", "w", ".", "b", "o", "o", "l", "i", ".", "s", "e", "/", "a",
      "n", "n", "o", "n", "s", "/", "5", "5", ")">>

\* no digit anywhere before " kr", a size
LineNoPrice ==
    <<"S", "p", "a", "r", "a", " ", "R", "i", "n", "g", "e", "n", " ",
      "-", " ", "k", "r", " ", "1", ",", "5", " ", "r", "u", "m", " ",
      "8", "4", " ", "m", "SUP2", " ", "L", "AUML", "g", "e", "n", "h",
      "e", "t", "]", "(", "h", "t", "t", "p", "s", ":", "/", "/", "w",
      "w", "w", ".", "b", "o", "o", "l", "i", ".", "s", "e", "/", "a",
      "n", "n", "o", "n", "s", "/", "2", ")">>

\* an address and neither price nor size
LineNoData ==
    <<"S", "p", "a", "r", "a", " ", "R", "i", "n", "g", "e", "n", " ",
      "L", "AUML", "g", "e", "n", "h", "e", "t", " ", "w", "w", "w", ".",
      "b", "o", "o", "l", "i", ".", "s", "e">>

\* no listing line
LineHeading ==
    <<"#", "#", "#", " ", "T", "i", "l", "l", " ", "s", "a", "l", "u">>

\* price and size and no "Spara "
LineNoAddress ==
    <<"1", "2", " ", "k", "r", " ", "3", "0", " ", "m", "SUP2", " ", "L",
      "AUML", "g", "e", "n", "h", "e", "t", " ", "w", "w", "w", ".", "b",
      "o", "o", "l", "i", ".", "s", "e">>

\* a link that ends with "/"
LineUrlSlash ==
    <<"S", "p", "a", "r", "a", " ", "G", "a", "t", "a", "n", " ", "3",
      " ", "-", " ", "5", " ", "k", "r", " ", "L", "AUML", "g", "e", "n",
      "h", "e", "t", "]", "(", "h", "t", "t", "p", "s", ":", "/", "/",
      "w", "w", "w", ".", "b", "o", "o", "l", "i", ".", "s", "e", "/",
      ")">>

\* no link, leading blanks
LineNoUrl ==
    <<" ", " ", "S", "p", "a", "r", "a", " ", "G", "a", "t", "a", "n",
      " ", "4", " ", "-", " ", "7", " ", "k", "r", " ", "L", "AUML", "g",
      "e", "n", "h", "e", "t", " ", "w", "w", "w", ".", "b", "o", "o",
      "l", "i", ".", "s", "e">>

\* a link with no closing ")"
LineUrlOpen ==
    <<"S", "p", "a", "r", "a", " ", "G", "a", "t", "a", "n", " ", "4",
      " ", "-", " ", "7", " ", "k", "r", " ", "L", "AUML", "g", "e", "n",
      "h", "e", "t", "]", "(", "h", "t", "t", "p", "s", ":", "/", "/",
      "w", "w", "w", ".", "b", "o", "o", "l", "i", ".", "s", "e", "/",
      "a", "n", "n", "o", "n", "s", "/", "9">>

\* a size with a leading "+"
LinePlusSqm ==
    <<"S", "p", "a", "r", "a", " ", "G", "a", "t", "a", "n", " ", "6",
      " ", "-", " ", "+", "4", "0", " ", "m", "SUP2", " ", "L", "AUML",
      "g", "e", "n", "h", "e", "t", " ", "w", "w", "w", ".", "b", "o",
      "o", "l", "i", ".", "s", "e">>

\* a size with a comma decimal separator
LineCommaSqm ==
    <<"S", "p", "a", "r", "a", " ", "G", "a", "t", "a", "n", " ", "7",
      " ", "-", " ", "3", "5", ",", "5", " ", "m", "SUP2", " ", "L",
      "AUML", "g", "e", "n", "h", "e", "t", " ", "w", "w", "w", ".", "b",
      "o", "o", "l", "i", ".", "s", "e">>

\* an area between two separators, after the numbers
LineArea ==
    <<"S", "p", "a", "r", "a", " ", "G", "a", "t", "a", "n", " ", "8",
      " ", "-", " ", "9", " ", "k", "r", " ", "2", "0", " ", "m", "SUP2",
      "L", "AUML", "g", "e", "n", "h", "e", "t", " ", "MIDDOT", " ", "M",
      "a", "r", "i", "a", " ", "MIDDOT", " ", "S", "t", "o", "c", "k",
      "h", "o", "l", "m", "]", "(", "h", "t", "t", "p", "s", ":", "/",
      "/", "w", "w", "w", ".", "b", "o", "o", "l", "i", ".", "s", "e",
      "/", "a", "n", "n", "o", "n", "s", "/", "8", ")">>

\* one two-byte char right before the size
LineMidChar ==
    <<"S", "p", "a", "r", "a", " ", "G", "a", "t", "a", "n", " ", "9",
      " ", "OUML", "3", "9", " ", "m", "SUP2", " ", "L", "AUML", "g",
      "e", "n", "h", "e", "t", " ", "w", "w", "w", ".", "b", "o", "o",
      "l", "i", ".", "s", "e">>

TextLines ==
    {LineSpecExample,
     LineDoubled,
     LineAddressDigits,
     LineLagenhetFirst,
     LineClean,
     LineNoPrice,
     LineNoData,
     LineHeading,
     LineNoAddress,
     LineUrlSlash,
     LineNoUrl,
     LineUrlOpen,
     LinePlusSqm,
     LineCommaSqm,
     LineArea,
     LineMidChar}

\* the example card of the specification
CardSpecExample ==
    [href       |-> Some(<<"/", "a", "n", "n", "o", "n", "s", "/", "1",
                           "2", "3">>),
     aria_label |-> Some(<<"2", " ", "r", "u", "m", " ", "l", "AUML", "g",
                           "e", "n", "h", "e", "t", " ", "p", "ARING", " ",
                           "G", "OUML", "t", "g", "a", "t", "a", "n", " ",
                           "1", "2", "0", " ", "S", "OUML", "d", "e", "r",
                           "m", "a", "l", "m", ",", " ", "S", "t", "o",
                           "c", "k", "h", "o", "l", "m", "s", " ", "k",
                           "o", "m", "m", "u", "n">>),
     lis        |-> <<Some(<<"7", "0", " ", "k", "v", "a", "d", "r", "a",
                            "t", "m", "e", "t", "e", "r">>)>>,
     price      |-> Some(<<"5", " ", "1", "9", "5", " ", "0", "0", "0",
                           " ", "k", "r">>),
     tags       |-> <<>>]

\* no href, a numeric last token, a fractional size, tags
CardNoHref ==
    [href       |-> Absent,
     aria_label |-> Some(<<"1", ",", "5", " ", "r", "u", "m", " ", "l",
                           "AUML", "g", "e", "n", "h", "e", "t", " ", "p",
                           "ARING", " ", "R", "i", "n", "g", "v", "AUML",
                           "g", "e", "n", " ", "1", "1", ",", " ", "S",
                           "t", "o", "c", "k", "h", "o", "l", "m">>),
     lis        |-> <<Some(<<"3", "5", ",", "5", " ", "k", "v", "a", "d",
                            "r", "a", "t", "m", "e", "t", "e", "r">>),
                     Some(<<"2", " ", "4", "0", "5", " ", "k", "r", "/",
                            "m", "ARING", "n">>)>>,
     price      |-> Absent,
     tags       |-> <<<<"H", "i", "s", "s">>,
                     <<"S", "n", "a", "r", "t", " ", "t", "i", "l", "l",
                       " ", "s", "a", "l", "u">>,
                     <<" ", "B", "a", "l", "k", "o", "n", "g", " ">>>>]

\* no aria-label
CardNoLabel ==
    [href       |-> Some(<<"/", "a", "n", "n", "o", "n", "s", "/", "5">>),
     aria_label |-> Absent,
     lis        |-> <<Some(<<"2", "4", " ", "k", "v", "a", "d", "r", "a",
                            "t", "m", "e", "t", "e", "r">>)>>,
     price      |-> Some(<<"2", " ", "3", "9", "5", " ", "0", "0", "0",
                           " ", "k", "r">>),
     tags       |-> <<<<"H", "i", "s", "s">>>>]

\* an href that ends with "/", a label with no comma
CardHrefSlash ==
    [href       |-> Some(<<"/", "a", "n", "n", "o", "n", "s", "/">>),
     aria_label |-> Some(<<"l", "AUML", "g", "e", "n", "h", "e", "t", " ",
                           "p", "ARING", " ", "T", "j", "u", "s", "t", "g",
                           "a", "t", "a", "n", " ", "4">>),
     lis        |-> <<Absent>>,
     price      |-> Some(<<"2", " ", "3", "9", "5", " ", "0", "0", "0",
                           " ", "k", "r">>),
     tags       |-> <<>>]

\* an address and neither price nor size
CardNoData ==
    [href       |-> Some(<<"/", "a", "n", "n", "o", "n", "s", "/", "6">>),
     aria_label |-> Some(<<"3", " ", "r", "u", "m", " ", "l", "AUML", "g",
                           "e", "n", "h", "e", "t", " ", "p", "ARING", " ",
                           "K", "a", "t", "a", "r", "i", "n", "a", ",",
                           " ", "S", "t", "o", "c", "k", "h", "o", "l",
                           "m">>),
     lis        |-> <<>>,
     price      |-> Some(<<"P", "r", "i", "s", " ", "s", "a", "k", "n",
                           "a", "s">>),
     tags       |-> <<>>]

\* an absolute href, &nbsp; in the labels
CardAbsoluteHref ==
    [href       |-> Some(<<"h", "t", "t", "p", "s", ":", "/", "/", "w",
                           "w", "w", ".", "b", "o", "o", "l", "i", ".",
                           "s", "e", "/", "a", "n", "n", "o", "n", "s",
                           "/", "7", "7">>),
     aria_label |-> Some(<<"4", "&", "n", "b", "s", "p", ";", "r", "u",
                           "m", " ", "l", "AUML", "g", "e", "n", "h", "e",
                           "t", " ", "p", "ARING", " ", "M", "a", "r", "i",
                           "a", ",", " ", "S", "t", "o", "c", "k", "h",
                           "o", "l", "m">>),
     lis        |-> <<Some(<<"1", "1", "4", "&", "n", "b", "s", "p", ";",
                            "k", "v", "a", "d", "r", "a", "t", "m", "e",
                            "t", "e", "r">>)>>,
     price      |-> Absent,
     tags       |-> <<<<"E", "l", "d", "s", "t", "a", "d">>>>]

\* the last href segment of CardSpecExample
CardSameId ==
    [href       |-> Some(<<"/", "b", "o", "s", "t", "a", "d", "/", "1",
                           "2", "3">>),
     aria_label |-> Some(<<"2", " ", "r", "u", "m", " ", "l", "AUML", "g",
                           "e", "n", "h", "e", "t", " ", "p", "ARING", " ",
                           "H", "o", "r", "n", "s", "g", "a", "t", "a",
                           "n", " ", "5", " ", "S", "OUML", "d", "e", "r",
                           "m", "a", "l", "m", ",", " ", "S", "t", "o",
                           "c", "k", "h", "o", "l", "m">>),
     lis        |-> <<Some(<<"3", "9", " ", "k", "v", "a", "d", "r", "a",
                            "t", "m", "e", "t", "e", "r">>)>>,
     price      |-> Some(<<"3", " ", "4", "9", "5", " ", "0", "0", "0",
                           " ", "k", "r">>),
     tags       |-> <<>>]

\* a price text with a numeric non-digit, two size labels
CardPricePerSqm ==
    [href       |-> Some(<<"/", "a", "n", "n", "o", "n", "s", "/", "8">>),
     aria_label |-> Some(<<"1", " ", "r", "u", "m", " ", "l", "AUML", "g",
                           "e", "n", "h", "e", "t", " ", "p", "ARING", " ",
                           "R", "i", "n", "g", "e", "n", " ", "2", ",",
                           " ", "S", "t", "o", "c", "k", "h", "o", "l",
                           "m">>),
     lis        |-> <<Some(<<"2", "0", " ", "k", "v", "a", "d", "r", "a",
                            "t", "m", "e", "t", "e", "r">>),
                     Some(<<"7", "0", " ", "k", "v", "a", "d", "r", "a",
                            "t", "m", "e", "t", "e", "r", " ", "t", "o",
                            "m", "t">>)>>,
     price      |-> Some(<<"1", "2", " ", "9", "5", "0", " ", "k", "r",
                           "/", "m", "SUP2">>),
     tags       |-> <<>>]

Cards ==
    {CardSpecExample,
     CardNoHref,
     CardNoLabel,
     CardHrefSlash,
     CardNoData,
     CardAbsoluteHref,
     CardSameId,
     CardPricePerSqm}

(***************************************************************************)
(* The runs of the program                                                 *)
(***************************************************************************)
\* the most lines of a response body and the most cards of a listing page
MaxLines == 2
MaxCards == 2

SeqsUpTo(S, n) == UNION {[1..k -> S] : k \in 0..n}

AGGREGATE_FILE ==
    <<"s", "c", "r", "a", "p", "e", "d", "_", "p", "r", "o", "p", "e",
      "r", "t", "i", "e", "s", ".", "j", "s", "o", "n">>
RAW_SCRAPE_DIR == <<"r", "a", "w", "_", "s", "c", "r", "a", "p", "e", "/">>
JSON_EXT == <<".", "j", "s", "o", "n">>

VARIABLES
    entry,       \* the entry point run: "scrape" is ScraperTrait::scrape of
                 \* BooliScraper, "main" is main
    pc,          \* where the run is
    lines,       \* scrape: html.lines() of the response body
    cards,       \* main: the a.object-card-link elements of the page
    i,           \* the loop index (i of booli.rs, idx of browser.rs)
    locals,      \* scrape: the locals of the last iteration of the line loop
    properties,  \* the Vec<Property> accumulated
    clock,       \* what Utc::now() returns
    result,      \* what the scraper returned: [status, value]
    fetch,       \* what the fetch step met: "none" before it, "ok", or the
                 \* failure
    origin,      \* the loop index each of the properties was pushed at
    printed,     \* main: the properties printed to standard output
    files,       \* main: the writes done, in order: [path, content]
    exit         \* main: the exit code, None while running

vars == <<entry, pc, lines, cards, i, locals, properties, clock, result,
          fetch, origin, printed, files, exit>>

NoResult == [status |-> "none", value |-> <<>>]
Ok(v) == [status |-> "ok", value |-> v]
Err == [status |-> "err", value |-> <<>>]
Panic == [status |-> "panic", value |-> <<>>]

Init ==
    /\ entry \in {"scrape", "main"}
    /\ pc = "start"
    /\ lines = <<>>
    /\ cards = <<>>
    /\ i = 0
    /\ locals = InitialLocals
    /\ properties = <<>>
    /\ clock = 0
    /\ result = NoResult
    /\ fetch = "none"
    /\ origin = <<>>
    /\ printed = <<>>
    /\ files = <<>>
    /\ exit = None

\* Utc::now() is read: the time does not go back
Tick == \E d \in {0, 1} : clock' = clock + d

(***************************************************************************)
(* ScraperTrait::scrape for BooliScraper                                   *)
(***************************************************************************)
\* a fetch step that falls back to the mock data on a bad status
FetchFailureFallingBack(failure) ==
    IF failure = "bad_status"
    THEN [status |-> "ok", value |-> get_mock_sodermalm_properties(0)]
    ELSE [status |-> "err", value |-> <<>>]

\* what a scraper returns when its fetch step fails: the error, by "?" or
\* bail!
FetchFailure(failure) == Err

\* send() fails, the status is no success, or the body cannot be read
ScrapeFetchFails ==
    /\ entry = "scrape" /\ pc = "start"
    /\ \E failure \in {"send_error", "bad_status", "body_error"} :
          /\ fetch' = failure
          /\ result' = FetchFailure(failure)
    /\ pc' = "returned"
    /\ UNCHANGED <<entry, lines, cards, i, locals, properties, clock,
                   origin, printed, files, exit>>

\* the response is a success and its body is read
ScrapeFetch ==
    /\ entry = "scrape" /\ pc = "start"
    /\ lines' \in SeqsUpTo(TextLines, MaxLines)
    /\ fetch' = "ok"
    /\ pc' = "parse"
    /\ i' = 0
    /\ properties' = <<>>
    /\ UNCHANGED <<entry, cards, locals, clock, result, origin, printed,
                   files, exit>>

\* the locals declared once, outside the loop
DeclareLocalsOnce(previous) == previous

\* the locals an iteration starts from: declared anew inside the loop
DeclareLocals(previous) == InitialLocals

\* the gate and the extraction of every line of the model from the declared
\* locals, evaluated once
ListingLines == {line \in TextLines : IsListingLine(trim(line))}
ExtractedLines == [line \in TextLines |-> ExtractLine(trim(line), InitialLocals)]

\* ExtractLine(trim(line), l0), read from ExtractedLines where it is there
ExtractTrimmed(line, l0) ==
    IF l0 = InitialLocals /\ line \in TextLines THEN ExtractedLines[line]
    ELSE ExtractLine(trim(line), l0)

\* the end of one iteration on a listing line: x is what its steps left
EndOfLine(x) ==
    IF x.panic
    THEN /\ pc' = "returned"
         /\ result' = Panic
         /\ UNCHANGED <<i, locals, properties, clock, origin>>
    ELSE /\ locals' = x.locals
         /\ i' = i + 1
         /\ IF HasMinimumData(x.locals.address, x.locals.price, x.locals.sqm)
            THEN /\ properties' =
                        Append(properties, TextProperty(x.locals, i, clock))
                 /\ origin' = Append(origin, i)
                 /\ Tick
            ELSE UNCHANGED <<properties, clock, origin>>
         /\ UNCHANGED <<pc, result>>

\* one iteration of the loop of parse_properties_from_html
ParseLine ==
    /\ entry = "scrape" /\ pc = "parse" /\ i < Len(lines)
    /\ IF lines[i + 1] \notin ListingLines
       THEN /\ i' = i + 1
            /\ UNCHANGED <<pc, locals, properties, clock, result, origin>>
       ELSE EndOfLine(ExtractTrimmed(lines[i + 1], DeclareLocals(locals)))
    /\ UNCHANGED <<entry, lines, cards, fetch, printed, files, exit>>

\* the end of scrape with the mock data added to what was parsed
DecideAppending(props, now) == props \o get_mock_sodermalm_properties(now)

\* the end of scrape: the mock data if nothing was parsed
Decide(props, now) ==
    IF props = <<>> THEN get_mock_sodermalm_properties(now) ELSE props

ScrapeReturn ==
    /\ entry = "scrape" /\ pc = "parse" /\ i = Len(lines)
    /\ result' = Ok(Decide(properties, clock))
    /\ pc' = "returned"
    /\ UNCHANGED <<entry, lines, cards, i, locals, properties, clock,
                   fetch, origin, printed, files, exit>>

(***************************************************************************)
(* main, with BooliBrowserScraper::new and ::scrape_sodermalm              *)
(***************************************************************************)
\* main returns Err: the process exits with a non-zero code
MainFails ==
    /\ pc' = "exited"
    /\ exit' = 1

\* new() fails, or scrape_sodermalm fails before the cards are selected
\* (new_tab, navigate_to, wait_until_navigated, evaluate, the screenshot or
\* a write below debug/)
BrowserFetchFails ==
    /\ entry = "main" /\ pc = "start"
    /\ fetch' = "browser_error"
    /\ result' = FetchFailure("browser_error")
    /\ MainFails
    /\ UNCHANGED <<entry, lines, cards, i, locals, properties, clock,
                   origin, printed, files>>

\* the page HTML is empty: scrape_sodermalm returns Ok(Vec::new())
BrowserFetchEmpty ==
    /\ entry = "main" /\ pc = "start"
    /\ fetch' = "ok"
    /\ result' = Ok(<<>>)
    /\ pc' = "scraped"
    /\ UNCHANGED <<entry, lines, cards, i, locals, properties, clock,
                   origin, printed, files, exit>>

\* the page HTML is parsed and its cards are selected
BrowserFetch ==
    /\ entry = "main" /\ pc = "start"
    /\ cards' \in SeqsUpTo(Cards, MaxCards)
    /\ fetch' = "ok"
    /\ pc' = "cards"
    /\ i' = 0
    /\ properties' = <<>>
    /\ UNCHANGED <<entry, lines, locals, clock, result, origin, printed,
                   files, exit>>

\* writing debug/first_card.html fails at the first card
FirstCardWriteFails ==
    /\ entry = "main" /\ pc = "cards" /\ i < Len(cards) /\ i = 0
    /\ result' = Err
    /\ MainFails
    /\ UNCHANGED <<entry, lines, cards, i, locals, properties, clock,
                   fetch, origin, printed, files>>

\* the extraction of every card of the model, evaluated once
ExtractedCards == [card \in Cards |-> ExtractCard(card)]

\* the end of one iteration of the card loop: c is what its steps left
EndOfCard(c) ==
    IF HasMinimumData(c.address, c.price, c.sqm)
    THEN /\ properties' = Append(properties, CardProperty(c, clock))
         /\ origin' = Append(origin, i)
         /\ Tick
    ELSE UNCHANGED <<properties, clock, origin>>

\* one iteration of the card loop of scrape_sodermalm
ProcessCard ==
    /\ entry = "main" /\ pc = "cards" /\ i < Len(cards)
    /\ EndOfCard(ExtractedCards[cards[i + 1]])
    /\ i' = i + 1
    /\ UNCHANGED <<entry, pc, lines, cards, locals, result, fetch, printed,
                   files, exit>>

BrowserReturn ==
    /\ entry = "main" /\ pc = "cards" /\ i = Len(cards)
    /\ result' = Ok(properties)
    /\ pc' = "scraped"
    /\ UNCHANGED <<entry, lines, cards, i, locals, properties, clock,
                   fetch, origin, printed, files, exit>>

\* main prints the properties returned
PrintResults ==
    /\ entry = "main" /\ pc = "scraped"
    /\ printed' = result.value
    /\ pc' = "write_aggregate"
    /\ UNCHANGED <<entry, lines, cards, i, locals, properties, clock, result,
                   fetch, origin, files, exit>>

PropertyPath(property) == RAW_SCRAPE_DIR \o property.id \o JSON_EXT

\* tokio::fs::write("scraped_properties.json", json), then
\* create_dir_all("raw_scrape"); either may fail
WriteAggregate ==
    /\ entry = "main" /\ pc = "write_aggregate"
    /\ \/ /\ files' = Append(files, [path |-> AGGREGATE_FILE,
                                     content |-> result.value])
          /\ \/ /\ pc' = "write_records"
                /\ i' = 0
                /\ UNCHANGED exit
             \/ /\ MainFails
                /\ UNCHANGED i
       \/ /\ MainFails
          /\ UNCHANGED <<files, i>>
    /\ UNCHANGED <<entry, lines, cards, locals, properties, clock, result,
                   fetch, origin, printed>>

\* one iteration of the loop over the properties that goes on to the next
\* record when the write fails
WriteRecordIgnoringFailure ==
    /\ entry = "main" /\ pc = "write_records" /\ i < Len(result.value)
    /\ \/ files' = Append(files,
                          [path    |-> PropertyPath(result.value[i + 1]),
                           content |-> <<result.value[i + 1]>>])
       \/ UNCHANGED files
    /\ i' = i + 1
    /\ UNCHANGED <<entry, pc, lines, cards, locals, properties, clock, result,
                   fetch, origin, printed, exit>>

\* one iteration of the loop over the properties: the write may fail
WriteRecord ==
    /\ entry = "main" /\ pc = "write_records" /\ i < Len(result.value)
    /\ \/ /\ files' = Append(files,
                             [path    |-> PropertyPath(result.value[i + 1]),
                              content |-> <<result.value[i + 1]>>])
          /\ i' = i + 1
          /\ UNCHANGED <<pc, exit>>
       \/ /\ MainFails
          /\ UNCHANGED <<files, i>>
    /\ UNCHANGED <<entry, lines, cards, locals, properties, clock, result,
                   fetch, origin, printed>>

\* main returns Ok(())
MainReturns ==
    /\ entry = "main" /\ pc = "write_records" /\ i = Len(result.value)
    /\ pc' = "exited"
    /\ exit' = 0
    /\ UNCHANGED <<entry, lines, cards, i, locals, properties, clock, result,
                   fetch, origin, printed, files>>

Next ==
    \/ ScrapeFetchFails
    \/ ScrapeFetch
    \/ ParseLine
    \/ ScrapeReturn
    \/ BrowserFetchFails
    \/ BrowserFetchEmpty
    \/ BrowserFetch
    \/ FirstCardWriteFails
    \/ ProcessCard
    \/ BrowserReturn
    \/ PrintResults
    \/ WriteAggregate
    \/ WriteRecord
    \/ MainReturns

Spec == Init /\ [][Next]_vars

(***************************************************************************)
(* Properties                                                              *)
(***************************************************************************)
\* the fragment a record was pushed for, and what its steps left
OriginLine(j) == lines[origin[j] + 1]
OriginCard(j) == cards[origin[j] + 1]

\* the record is one of the mock data
IsMock(p) == "mock" \in DOMAIN p.raw_data /\ p.raw_data.mock

\* a record has the minimum data
MinimumFields(p) == p.address # <<>> /\ (p.price > 0 \/ p.sqm > 0)

\* C1: every record accumulated or returned by the text-mode parser, by the
\* markup-mode scraper and every record of the mock data has a non-empty
\* address and a price or an sqm above 0; a fragment whose steps leave the
\* address empty has no record pushed for it, whatever its price and sqm.
MinimumFieldInvariant ==
    /\ \A j \in 1..Len(properties) : MinimumFields(properties[j])
    /\ \A j \in 1..Len(result.value) : MinimumFields(result.value[j])
    /\ \A j \in 1..5 : MinimumFields(get_mock_sodermalm_properties(clock)[j])
    /\ \A j \in 1..Len(origin) :
          IF entry = "scrape"
          THEN ExtractedLines[OriginLine(j)].locals.address # <<>>
          ELSE ExtractedCards[OriginCard(j)].address # <<>>

\* C1 happens: a page with a line that has a price and an sqm but no address,
\* and a line with all of them, was parsed to one record, pushed for the
\* second line
MinimumFieldWitness ==
    /\ entry = "scrape" /\ pc = "returned"
    /\ lines = <<LineNoAddress, LineClean>>
    /\ origin = <<1>>
    /\ result.value = properties /\ Len(properties) = 1

\* C2: when scrape returns Ok, the result is the 5 mock records, each with
\* raw_data.mock = true, if no record was accumulated, and otherwise it is
\* the accumulated records, none of them a mock record; mock and parsed
\* records are never returned together.
DecidingRule ==
    (entry = "scrape" /\ pc = "returned" /\ result.status = "ok") =>
        /\ properties = <<>> =>
              /\ Len(result.value) = 5
              /\ \A j \in 1..5 : IsMock(result.value[j])
              /\ \E now \in 0..clock :
                    result.value = get_mock_sodermalm_properties(now)
        /\ properties # <<>> =>
              /\ result.value = properties
              /\ \A j \in 1..Len(result.value) : ~IsMock(result.value[j])
        /\ ~(\E j, k \in 1..Len(result.value) :
                 IsMock(result.value[j]) /\ ~IsMock(result.value[k]))

\* C2 happens: a page of two lines, neither of which gives a record, was
\* fetched and scrape returned the 5 mock records
DecidingRuleWitness ==
    /\ entry = "scrape" /\ pc = "returned" /\ result.status = "ok"
    /\ lines = <<LineNoAddress, LineNoData>>
    /\ properties = <<>>
    /\ Len(result.value) = 5

\* C3: a run of main that exits with code 0 has printed at least one record
\* and has written at least one record to scraped_properties.json.
SuccessfulRunHasRecords ==
    exit = 0 =>
        /\ printed # <<>>
        /\ \E k \in 1..Len(files) :
              files[k].path = AGGREGATE_FILE /\ files[k].content # <<>>

\* C4: once the page is fetched, the line loop of scrape neither panics nor
\* returns an error, whatever the lines are.
ExtractionNeverFails ==
    (entry = "scrape" /\ fetch = "ok") => result.status \notin {"panic", "err"}

\* the id the rule gives: the last '/'-delimited segment of the URL when it
\* is not empty, and "booli_<index>" otherwise
RuleId(url, index) ==
    IF split_last(url, "/") # <<>> THEN split_last(url, "/")
    ELSE BOOLI_ \o FormatInt(index)

\* C5: every accumulated record has a non-empty id, which is the last
\* '/'-delimited segment of the URL of its line (of the href of its card)
\* when that segment is not empty, and "booli_<index>" otherwise.
IdNeverEmpty ==
    \A j \in 1..Len(properties) :
        /\ properties[j].id # <<>>
        /\ properties[j].id =
              RuleId(IF entry = "scrape" THEN properties[j].url
                     ELSE ExtractedCards[OriginCard(j)].href, origin[j])

\* the failures of the fetch step
FetchFailures == {"send_error", "bad_status", "body_error", "browser_error"}

\* C6: when the fetch step has failed, the scraper has returned an error
\* with no record (the mock data are not returned), nothing is printed, no
\* file is written, and main has exited with a non-zero code.
FetchFailureIsFatal ==
    fetch \in FetchFailures =>
        /\ result.status = "err" /\ result.value = <<>>
        /\ printed = <<>> /\ files = <<>>
        /\ entry = "main" => (pc = "exited" /\ exit # 0 /\ exit # None)
        /\ entry = "scrape" => pc = "returned"

\* C6 happens: the browser could not be started or the page not be loaded,
\* and main has exited
FetchFailureWitness ==
    entry = "main" /\ fetch = "browser_error" /\ pc = "exited" /\ exit = 1

IsSuffix(suffix, s) ==
    /\ Len(suffix) <= Len(s)
    /\ SubSeq(s, Len(s) - Len(suffix) + 1, Len(s)) = suffix

GOTGATAN_120 == <<"G", "OUML", "t", "g", "a", "t", "a", "n", " ", "1", "2", "0">>

\* C7: in a record pushed for a card, the area token is not left at the end
\* of the address; the card labelled "2 rum lägenhet på Götgatan 120
\* Södermalm, Stockholms kommun", with "70 kvadratmeter" and "5 195 000 kr",
\* gives rooms 2.0, address "Götgatan 120", area "Södermalm", sqm 70 and
\* price 5195000.
CardAreaStrippedFromAddress ==
    entry = "main" =>
        \A j \in 1..Len(properties) :
            /\ ~IsSuffix(<<" ">> \o properties[j].location.area,
                         properties[j].address)
            /\ OriginCard(j) = CardSpecExample =>
                  /\ properties[j].rooms = 20
                  /\ properties[j].address = GOTGATAN_120
                  /\ properties[j].location.area = SODERMALM
                  /\ properties[j].sqm = 70
                  /\ properties[j].price = 5195000

FOLKUNGAGATAN_101 ==
    <<"F", "o", "l", "k", "u", "n", "g", "a", "g", "a", "t", "a", "n",
      " ", "1", "0", "1">>
ANNONS_SODERMALM5 ==
    <<"h", "t", "t", "p", "s", ":", "/", "/", "w", "w", "w", ".", "b",
      "o", "o", "l", "i", ".", "s", "e", "/", "a", "n", "n", "o", "n",
      "s", "/", "s", "o", "d", "e", "r", "m", "a", "l", "m", "5">>
GATAN_1 == <<"G", "a", "t", "a", "n", " ", "1">>

\* C8: when scrape has returned, a line in which the address stands twice
\* back to back between "Spara " and "Lägenhet" has a record with the
\* address once: the line "Spara Folkungagatan 101Folkungagatan
\* 101Lägenhet ..." of the specification has address "Folkungagatan 101",
\* price 3495000, sqm 39, rooms 2.0, features ["Hiss"] and its URL, and the
\* line "Spara Gatan 1Gatan 1 - 9 kr ..." has address "Gatan 1".
AddressFirstOccurrenceOnly ==
    (entry = "scrape" /\ pc = "returned" /\ fetch = "ok") =>
        \A k \in 1..Len(lines) :
            /\ lines[k] = LineSpecExample =>
                  \E j \in 1..Len(properties) :
                      /\ origin[j] = k - 1
                      /\ properties[j].address = FOLKUNGAGATAN_101
                      /\ properties[j].price = 3495000
                      /\ properties[j].sqm = 39
                      /\ properties[j].rooms = 20
                      /\ properties[j].features = <<HISS>>
                      /\ properties[j].url = ANNONS_SODERMALM5
            /\ lines[k] = LineDoubled =>
                  \E j \in 1..Len(properties) :
                      /\ origin[j] = k - 1
                      /\ properties[j].address = GATAN_1

\* the price the rule gives: the digits of the run of digits and spaces
\* that ends just before the first " kr", 0 when no digit stands there
RECURSIVE RulePriceRun(_, _)
RulePriceRun(s, k) ==
    IF k >= 1 /\ (s[k] \in Digits \/ s[k] = " ")
    THEN RulePriceRun(s, k - 1) \o (IF s[k] = " " THEN <<>> ELSE <<s[k]>>)
    ELSE <<>>

RulePrice(line) ==
    LET at == Matches(line, KR)
    IN  IF at = {} \/ SetMin(at) = 1 THEN 0
        ELSE IF line[SetMin(at) - 1] \notin Digits THEN 0
        ELSE DigitsValue(RulePriceRun(line, SetMin(at) - 1))

\* C9: the price of every record pushed for a line is the number that
\* stands just before the first " kr" of the line, and 0 when no digit
\* stands there, whatever digits the line has earlier.
PriceImmediatelyBeforeKr ==
    entry = "scrape" =>
        \A j \in 1..Len(properties) :
            properties[j].price = RulePrice(trim(OriginLine(j)))

\* a record with its time of scraping left out
WithoutTime(p) == [p EXCEPT !.scraped_at = 0]

\* C10: every accumulated record is, but for scraped_at, the record built
\* from its own fragment and index alone: from the locals the steps leave
\* on that line starting from the declared locals, or from what the steps
\* leave on that card.
RecordFromOwnFragment ==
    \A j \in 1..Len(properties) :
        WithoutTime(properties[j]) =
            IF entry = "scrape"
            THEN TextProperty(ExtractedLines[OriginLine(j)].locals,
                              origin[j], 0)
            ELSE CardProperty(ExtractedCards[OriginCard(j)], 0)

\* C10 happens: a line with a URL and then a line without one were parsed
\* to two records
RecordFromOwnFragmentWitness ==
    /\ entry = "scrape" /\ pc = "returned"
    /\ lines = <<LineClean, LineNoUrl>>
    /\ origin = <<0, 1>>
    /\ Len(properties) = 2

\* the paths of the per-record files written so far
RecordPaths ==
    {files[k].path : k \in {n \in 1..Len(files) :
                                files[n].path # AGGREGATE_FILE}}

\* C11: two different records accumulated in one run have different ids,
\* and when main has exited with code 0 there are as many per-record files
\* raw_scrape/<id>.json as records returned.
RecordPathsDistinct ==
    /\ \A j, k \in 1..Len(properties) :
          WithoutTime(properties[j]) # WithoutTime(properties[k]) =>
              properties[j].id # properties[k].id
    /\ exit = 0 => Cardinality(RecordPaths) = Len(result.value)

\* the indexes of the fragments of the page whose steps leave the minimum
\* data (a line the steps panic on leaves none)
ValidLines ==
    {k \in 0..(Len(lines) - 1) :
        /\ lines[k + 1] \in ListingLines
        /\ ~ExtractedLines[lines[k + 1]].panic
        /\ HasMinimumData(ExtractedLines[lines[k + 1]].locals.address,
                          ExtractedLines[lines[k + 1]].locals.price,
                          ExtractedLines[lines[k + 1]].locals.sqm)}

ValidCards ==
    {k \in 0..(Len(cards) - 1) :
        HasMinimumData(ExtractedCards[cards[k + 1]].address,
                       ExtractedCards[cards[k + 1]].price,
                       ExtractedCards[cards[k + 1]].sqm)}

\* the records were pushed in document order, one for each index of valid
InDocumentOrder(valid) ==
    /\ \A j, k \in 1..Len(origin) : j < k => origin[j] < origin[k]
    /\ {origin[j] : j \in 1..Len(origin)} = valid
    /\ Len(properties) = Len(origin)

\* C12: when the loop over a fetched page is over, it was not aborted, and
\* the accumulated records are, in document order, one record for each
\* fragment that has the minimum data, each the record of its own fragment
\* alone; the markup-mode scraper returns that list.
OrderPreservingFilter ==
    /\ (entry = "scrape" /\ pc = "returned" /\ fetch = "ok") =>
          /\ result.status = "ok"
          /\ InDocumentOrder(ValidLines)
    /\ (entry = "main" /\ pc = "scraped" /\ cards # <<>>) =>
          /\ result = Ok(properties)
          /\ InDocumentOrder(ValidCards)
    /\ RecordFromOwnFragment

\* the writes done are the aggregate file and then the files of the first
\* records of the result, in their order
WritesInOrder ==
    /\ Len(files) <= 1 + Len(result.value)
    /\ files # <<>> =>
          files[1] = [path |-> AGGREGATE_FILE, content |-> result.value]
    /\ \A k \in 2..Len(files) :
          files[k] = [path    |-> PropertyPath(result.value[k - 1]),
                      content |-> <<result.value[k - 1]>>]
    /\ exit = 0 => Len(files) = 1 + Len(result.value)
    /\ (exit # None /\ exit # 0) => pc = "exited"

\* C13: in main the aggregate file is written before any per-record file
\* and the per-record files are written in record order; main takes no
\* step once it has exited, so after a failed write no later file is
\* written, and every step leaves the files already written as they are;
\* an exit with code 0 has written all of them.
PersistenceOrderAndAbort ==
    [][/\ exit = None
       /\ WritesInOrder'
       /\ Len(files) <= Len(files')
       /\ SubSeq(files', 1, Len(files)) = files]_vars

\* C13 happens: of two records the aggregate file and the file of the first
\* were written, the write of the second failed and main exited with an
\* error
PersistenceAbortWitness ==
    /\ entry = "main" /\ pc = "exited" /\ exit = 1
    /\ Len(result.value) = 2
    /\ Len(files) = 2

\* the size the rule gives: the run of digits, ',', '.' and '+' that ends
\* just before the first marker (blanks between them passed over), its
\* leading '+' stripped and its ',' made '.', truncated toward zero; 0 when
\* there is no marker or the run does not parse
RECURSIVE RuleSizeRun(_, _)
RuleSizeRun(s, k) ==
    IF k >= 1 /\ s[k] \in Digits \cup {",", ".", "+"}
    THEN Append(RuleSizeRun(s, k - 1), s[k])
    ELSE <<>>

RECURSIVE RuleSizeEnd(_, _)
RuleSizeEnd(s, k) ==
    IF k >= 1 /\ s[k] = " " THEN RuleSizeEnd(s, k - 1) ELSE k

RuleSizeOf(run) ==
    IF ParseF32(replace(run, <<",">>, <<".">>)).ok
    THEN F32AsI32(ParseF32(replace(run, <<",">>, <<".">>)).v)
    ELSE 0

RuleSizeUnsigned(run) ==
    RuleSizeOf(IF run # <<>> /\ Head(run) = "+" THEN Tail(run) ELSE run)

RuleSize(text, marker) ==
    IF Matches(text, marker) = {} THEN 0
    ELSE RuleSizeUnsigned(
             RuleSizeRun(text,
                         RuleSizeEnd(text, SetMin(Matches(text, marker)) - 1)))

\* the size the rule gives for the list items of a card: that of the last
\* label with the marker
RECURSIVE RuleCardSize(_, _)
RuleCardSize(lis, sqm) ==
    IF lis = <<>> THEN sqm
    ELSE IF Head(lis) # Absent
            /\ contains(replace(Head(lis)[1], NBSP, <<" ">>), KVADRATMETER)
    THEN RuleCardSize(Tail(lis),
                      RuleSize(replace(Head(lis)[1], NBSP, <<" ">>),
                               KVADRATMETER))
    ELSE RuleCardSize(Tail(lis), sqm)

\* C14: the sqm of every accumulated record is the number that stands just
\* before the size marker ("m²" of the line, "kvadratmeter" of the card's
\* list-item label), read with a leading '+' stripped and a decimal comma
\* as a point and truncated toward zero ("35,5" is 35, "+40" is 40), and 0
\* when it does not parse.
SizeRule ==
    \A j \in 1..Len(properties) :
        properties[j].sqm =
            IF entry = "scrape" THEN RuleSize(trim(OriginLine(j)), M2)
            ELSE RuleCardSize(OriginCard(j).lis, 0)

\* the vocabulary words of a line in the order the vocabulary lists them
InVocabularyOrder(line) ==
    SelectSeq(VOCABULARY, LAMBDA w : contains(line, w))

\* C15 as stated: in text mode the features of every accumulated record are
\* the vocabulary words "Hiss", "Balkong", "Eldstad" that occur in its line,
\* each once, in the order of their first occurrences in the line.
FeaturesInLineOrder ==
    entry = "scrape" =>
        \A j \in 1..Len(properties) :
            properties[j].features = FirstSeen(OriginLine(j))

\* C15: in text mode the features of every accumulated record are the
\* vocabulary words "Hiss", "Balkong", "Eldstad" that occur in its line, each
\* once, in the fixed order Hiss, Balkong, Eldstad wherever they stand in the
\* line (a line with "Balkong" before "Hiss" gives Hiss, Balkong).
FeaturesInVocabularyOrder ==
    entry = "scrape" =>
        \A j \in 1..Len(properties) :
            properties[j].features = InVocabularyOrder(OriginLine(j))

FeaturesOrderWitness ==
    /\ entry = "scrape"
    /\ \E j \in 1..Len(properties) :
          /\ contains(OriginLine(j), HISS)
          /\ contains(OriginLine(j), BALKONG)
          /\ SetMin(Matches(OriginLine(j), BALKONG))
                 < SetMin(Matches(OriginLine(j), HISS))
          /\ properties[j].features = <<HISS, BALKONG>>

\* an absolute link into the listing site
IsAbsoluteUrl(url) ==
    /\ Len(url) > Len(BASE_URL)
    /\ SubSeq(url, 1, Len(BASE_URL) + 1) = BASE_URL \o <<"/">>

\* C16: the url of every accumulated record is an absolute link to the
\* listing (not empty, beginning with "https://www.booli.se/"), in text mode
\* also for a line without link or with an unclosed link, in markup mode also
\* for a card whose href is missing, empty or already absolute.
UrlAbsolute ==
    \A j \in 1..Len(properties) : IsAbsoluteUrl(properties[j].url)

=============================================================================
